---- MODULE Spec2Model ----
(***************************************************************************)
(* Model of the score-transcript edge function                             *)
(* (supabase/functions/score-transcript/index.ts): the tokenizer, the      *)
(* keyword, length and similarity scorers, the weight normalisation and    *)
(* the request handler that combines them.                                 *)
(*                                                                         *)
(* Numbers.  The scores are JavaScript numbers.  They are modelled as      *)
(* exact rationals [n, d] in lowest terms, so that divisions, the 0.4/0.4/ *)
(* 0.2 blend and Math.round to 2, 3 or 4 decimals are computed, not        *)
(* assumed.  Where a statement depends on binary64 rounding itself (the    *)
(* sum of the normalised weights) the same source line is also evaluated   *)
(* in IEEE-754 binary64, with the 53-bit significand kept as a bit         *)
(* sequence (the F64 operators).                                           *)
(*                                                                         *)
(* Strings are sequences of one-character strings.                         *)
(***************************************************************************)
EXTENDS Integers, Sequences, FiniteSets, TLC

VARIABLES
    pc,                 \* position of the handler in its body
    body,               \* the request: method and the body's transcript field
    rubrics,            \* the rows the rubric query returned (raw weights)
    normalizedRubrics,  \* the rows with their normalised weights
    tokens,             \* tokenize(transcript)
    idx,                \* index of the rubric the loop is at
    rubricQueries,      \* how often the rubrics table was queried
    rubricReply,        \* what the rubric query settled with
    insertReply,        \* what the insert settled with
    criteriaScores,     \* the CriterionScore objects pushed so far
    internals,          \* per rubric, the unrounded K, S, L, combined, weighted
    totalWeightedScore, \* the running sum of the weighted contributions
    oracleLog,          \* every oracle call: the rubric index, and its outcome
    result,             \* the ScoreResult once built
    dbRows,             \* rows inserted into transcripts by this run
    insertAttempts,     \* how often the insert was attempted
    response,           \* the HTTP response returned, or NoResponse
    call                \* unit harness: a pure function, its arguments, its result

vars == <<pc, body, rubrics, normalizedRubrics, tokens, idx, rubricQueries,
          rubricReply, insertReply,
          criteriaScores, internals, totalWeightedScore, oracleLog, result,
          dbRows, insertAttempts, response, call>>

handlerVars == <<pc, body, rubrics, normalizedRubrics, tokens, idx, rubricQueries,
                 rubricReply, insertReply,
                 criteriaScores, internals, totalWeightedScore, oracleLog,
                 result, dbRows, insertAttempts, response>>

(***************************************************************************)
(* Bounds of the model.                                                    *)
(***************************************************************************)
MaxWords == 7
MaxRubrics == 2
MaxNormRubrics == 3
MaxWeight == 3
MaxKwLen == 4
MaxContentLen == 4

\* max_words INTEGER DEFAULT 9999
DefaultMaxWords == 9999

(***************************************************************************)
(* Exact rational arithmetic for JavaScript numbers.                       *)
(***************************************************************************)
Abs(x) == IF x < 0 THEN -x ELSE x

RECURSIVE GCD(_, _)
GCD(a, b) == IF b = 0 THEN a ELSE GCD(b, a % b)

Rat(n, d) ==
    LET g == GCD(Abs(n), Abs(d))
        s == IF d < 0 THEN -1 ELSE 1
    IN  [n |-> (s * n) \div g, d |-> (s * d) \div g]

Zero == Rat(0, 1)
One == Rat(1, 1)
Half == Rat(1, 2)
Hundred == Rat(100, 1)

RAdd(x, y) == Rat(x.n * y.d + y.n * x.d, x.d * y.d)
RMul(x, y) == Rat(x.n * y.n, x.d * y.d)
RDiv(x, y) == Rat(x.n * y.d, x.d * y.n)
RLe(x, y) == x.n * y.d <= y.n * x.d
RLt(x, y) == x.n * y.d < y.n * x.d
RMax(x, y) == IF RLt(x, y) THEN y ELSE x
RMin(x, y) == IF RLt(y, x) THEN y ELSE x
InUnit(x) == RLe(Zero, x) /\ RLe(x, One)

IntMax(a, b) == IF a >= b THEN a ELSE b

\* Math.round: the nearest integer, a tie going up.
MathRound(x) == (2 * x.n + x.d) \div (2 * x.d)

\* Math.round(x * scale) / scale
RoundTo(x, scale) == Rat(MathRound(RMul(x, Rat(scale, 1))), scale)

(***************************************************************************)
(* Strings: sequences of one-character strings.                            *)
(***************************************************************************)
UpperChars ==
    <<"A", "B", "C", "D", "E", "F", "G", "H", "I", "J", "K", "L", "M",
      "N", "O", "P", "Q", "R", "S", "T", "U", "V", "W", "X", "Y", "Z">>
LowerChars ==
    <<"a", "b", "c", "d", "e", "f", "g", "h", "i", "j", "k", "l", "m",
      "n", "o", "p", "q", "r", "s", "t", "u", "v", "w", "x", "y", "z">>
DigitChars == <<"0", "1", "2", "3", "4", "5", "6", "7", "8", "9">>

Range(f) == {f[i] : i \in DOMAIN f}

\* String.prototype.toLowerCase, on the letters A-Z
toLowerCaseChar(c) ==
    IF c \in Range(UpperChars)
    THEN LowerChars[CHOOSE i \in DOMAIN UpperChars : UpperChars[i] = c]
    ELSE c
toLowerCase(s) == [i \in 1..Len(s) |-> toLowerCaseChar(s[i])]

\* the regular expression classes \w and [\w']
IsWordChar(c) ==
    c \in Range(UpperChars) \cup Range(LowerChars) \cup Range(DigitChars) \cup {"_"}
IsTokenChar(c) == IsWordChar(c) \/ c = "'"

\* \b at the gap before character p (p in 1..Len(t)+1)
WordBoundary(t, p) ==
    LET before == p > 1 /\ IsWordChar(t[p - 1])
        after == p <= Len(t) /\ IsWordChar(t[p])
    IN  before # after

\* the ends e of the matches of [\w']+\b that start at s
MatchEnds(t, s) ==
    {e \in s..Len(t) :
        (\A k \in s..e : IsTokenChar(t[k])) /\ WordBoundary(t, e + 1)}

SetMax(S) == CHOOSE x \in S : \A y \in S : y <= x

\* text.match(/\b[\w']+\b/g): leftmost match, greedy, then on from its end
RECURSIVE MatchAll(_, _)
MatchAll(t, i) ==
    IF i > Len(t)
    THEN <<>>
    ELSE IF WordBoundary(t, i) /\ MatchEnds(t, i) # {}
    THEN LET e == SetMax(MatchEnds(t, i))
         IN  <<SubSeq(t, i, e)>> \o MatchAll(t, e + 1)
    ELSE MatchAll(t, i + 1)

\* a tokenizer that keeps the case of the text
tokenize_CaseKept(text) == MatchAll(text, 1)

tokenize(text) == MatchAll(toLowerCase(text), 1)

(***************************************************************************)
(* computeKeywordScore                                                     *)
(***************************************************************************)
\* keywords: string | null
NullText == [null |-> TRUE, s |-> <<>>]
Text(s) == [null |-> FALSE, s |-> s]

IsSeparator(c) == c \in {",", ";"}
IsSpace(c) == c \in {" ", "\t", "\n"}

\* s.split(/[,;]/): the pieces between separators, empty ones included
RECURSIVE Split(_, _)
Split(s, piece) ==
    IF s = <<>>
    THEN <<piece>>
    ELSE IF IsSeparator(Head(s))
    THEN <<piece>> \o Split(Tail(s), <<>>)
    ELSE Split(Tail(s), Append(piece, Head(s)))

RECURSIVE TrimStart(_)
TrimStart(s) ==
    IF s # <<>> /\ IsSpace(Head(s)) THEN TrimStart(Tail(s)) ELSE s
RECURSIVE TrimEnd(_)
TrimEnd(s) ==
    IF s # <<>> /\ IsSpace(s[Len(s)])
    THEN TrimEnd(SubSeq(s, 1, Len(s) - 1))
    ELSE s
Trim(s) == TrimEnd(TrimStart(s))

\* .filter(k => k.length > 0)
RECURSIVE DropEmpty(_)
DropEmpty(seq) ==
    IF seq = <<>>
    THEN <<>>
    ELSE IF Len(Head(seq)) > 0
    THEN <<Head(seq)>> \o DropEmpty(Tail(seq))
    ELSE DropEmpty(Tail(seq))

\* keywordsText.split(/[,;]/).map(k => k.trim().toLowerCase()).filter(k => k.length > 0)
ParseKeywords(s) ==
    LET pieces == Split(s, <<>>)
        mapped == [i \in 1..Len(pieces) |-> toLowerCase(Trim(pieces[i]))]
    IN  DropEmpty(mapped)

\* tokens.join(" ")
RECURSIVE Join(_)
Join(toks) ==
    IF toks = <<>>
    THEN <<>>
    ELSE IF Len(toks) = 1
    THEN toks[1]
    ELSE toks[1] \o <<" ">> \o Join(Tail(toks))

\* String.prototype.includes
Includes(text, part) ==
    \E i \in 1..(Len(text) - Len(part) + 1) :
        SubSeq(text, i, i + Len(part) - 1) = part

\* a test that looks every keyword up as a substring of the joined tokens
KeywordFound_Substring(kw, toks) == Includes(Join(toks), kw)

\* the test of the loop body of computeKeywordScore
KeywordFound(kw, toks) ==
    IF Includes(kw, <<" ">>)
    THEN Includes(Join(toks), kw)
    ELSE kw \in Range(toks)

\* for (const kw of keywords) { ... found.push(kw) ... }
RECURSIVE FoundKeywords(_, _)
FoundKeywords(keywords, toks) ==
    IF keywords = <<>>
    THEN <<>>
    ELSE IF KeywordFound(Head(keywords), toks)
    THEN <<Head(keywords)>> \o FoundKeywords(Tail(keywords), toks)
    ELSE FoundKeywords(Tail(keywords), toks)

computeKeywordScore(keywordsText, toks) ==
    IF keywordsText.null \/ keywordsText.s = <<>>
    THEN [found |-> <<>>, expected |-> 0, score |-> One]
    ELSE LET keywords == ParseKeywords(keywordsText.s)
             found == FoundKeywords(keywords, toks)
         IN  IF Len(keywords) = 0
             THEN [found |-> <<>>, expected |-> 0, score |-> One]
             ELSE [found |-> found,
                   expected |-> Len(keywords),
                   score |-> Rat(Len(found), Len(keywords))]

(***************************************************************************)
(* computeLengthScore                                                      *)
(***************************************************************************)
\* partial credit below the minimum without the factor 0.5
BelowMinFormula_Full(minWords, totalWords) ==
    RMax(Zero, Rat(totalWords, IntMax(1, minWords)))

\* Math.max(0.0, 0.5 * (totalWords / Math.max(1, minWords)))
BelowMinFormula(minWords, totalWords) ==
    RMax(Zero, RMul(Half, Rat(totalWords, IntMax(1, minWords))))

\* Math.max(0.0, 0.5 * (maxWords / totalWords)), for totalWords > 0
AboveMaxFormula(maxWords, totalWords) ==
    RMax(Zero, RMul(Half, Rat(maxWords, totalWords)))

\* a range test that leaves the two boundaries out
computeLengthScore_Exclusive(minWords, maxWords, totalWords) ==
    IF totalWords > minWords /\ totalWords < maxWords
    THEN One
    ELSE IF totalWords < minWords
    THEN BelowMinFormula(minWords, totalWords)
    ELSE IF totalWords > maxWords /\ maxWords > 0
    THEN AboveMaxFormula(maxWords, totalWords)
    ELSE Zero

computeLengthScore(minWords, maxWords, totalWords) ==
    IF totalWords >= minWords /\ totalWords <= maxWords
    THEN One
    ELSE IF totalWords < minWords
    THEN BelowMinFormula(minWords, totalWords)
    ELSE IF totalWords > maxWords /\ maxWords > 0
    THEN AboveMaxFormula(maxWords, totalWords)
    ELSE Zero

(***************************************************************************)
(* computeSemanticSimilarity                                               *)
(***************************************************************************)
DigitVal(c) == (CHOOSE i \in DOMAIN DigitChars : DigitChars[i] = c) - 1
IsDigit(c) == c \in Range(DigitChars)

\* the length of the run of decimal digits of s that starts at i
RECURSIVE DigitRun(_, _)
DigitRun(s, i) ==
    IF i <= Len(s) /\ IsDigit(s[i]) THEN 1 + DigitRun(s, i + 1) ELSE 0

\* the decimal digits s[i..j] as a natural number
RECURSIVE DigitsValue(_, _, _)
DigitsValue(s, i, j) ==
    IF j < i THEN 0 ELSE 10 * DigitsValue(s, i, j - 1) + DigitVal(s[j])

RECURSIVE Pow10(_)
Pow10(k) == IF k = 0 THEN 1 ELSE 10 * Pow10(k - 1)

StartsWith(s, i, part) ==
    i + Len(part) - 1 <= Len(s) /\ SubSeq(s, i, i + Len(part) - 1) = part

NaN == [nan |-> TRUE, inf |-> 0, v |-> Zero]
Num(v) == [nan |-> FALSE, inf |-> 0, v |-> v]
Infinite(sign) == [nan |-> FALSE, inf |-> sign, v |-> Zero]

\* parseFloat reads the longest prefix that is a StrDecimalLiteral:
\*   [+-] (Infinity | digits [. [digits]] [exponent] | . digits [exponent])
\* after skipping leading white space; NaN when there is none.

\* where the literal's digits start: after the sign, if any
AfterSign(s) == IF s # <<>> /\ s[1] \in {"+", "-"} THEN 2 ELSE 1
SignOf(s) == IF s # <<>> /\ s[1] = "-" THEN -1 ELSE 1

\* the digits before the point, whether a point follows them, the digits after it
IntLen(s) == DigitRun(s, AfterSign(s))
HasDot(s) == AfterSign(s) + IntLen(s) <= Len(s) /\ s[AfterSign(s) + IntLen(s)] = "."
FracLen(s) == IF HasDot(s) THEN DigitRun(s, AfterSign(s) + IntLen(s) + 1) ELSE 0

\* the index of the last character of the mantissa
MantissaEnd(s) ==
    IF HasDot(s) /\ IntLen(s) + FracLen(s) > 0
    THEN AfterSign(s) + IntLen(s) + FracLen(s)
    ELSE AfterSign(s) + IntLen(s) - 1

\* the mantissa's value
Mantissa(s) ==
    LET i0 == AfterSign(s)
        a == IntLen(s)
        b == FracLen(s)
    IN  Rat(DigitsValue(s, i0, i0 + a - 1) * Pow10(b)
              + (IF b > 0 THEN DigitsValue(s, i0 + a + 1, i0 + a + b) ELSE 0),
            Pow10(b))

\* the exponent part that starts at index i ([eE] [+-] digits), 0 when there is none
ExponentAt(s, i) ==
    LET hasE == i <= Len(s) /\ s[i] \in {"e", "E"}
        eSigned == hasE /\ i + 1 <= Len(s) /\ s[i + 1] \in {"+", "-"}
        e0 == IF eSigned THEN i + 2 ELSE i + 1
        eLen == IF hasE THEN DigitRun(s, e0) ELSE 0
    IN  IF eLen = 0
        THEN 0
        ELSE (IF eSigned /\ s[i + 1] = "-" THEN -1 ELSE 1)
                 * DigitsValue(s, e0, e0 + eLen - 1)

Scale10(exp) == IF exp >= 0 THEN Rat(Pow10(exp), 1) ELSE Rat(1, Pow10(-exp))

ParseTrimmed(s) ==
    IF StartsWith(s, AfterSign(s), <<"I", "n", "f", "i", "n", "i", "t", "y">>)
    THEN Infinite(SignOf(s))
    ELSE IF IntLen(s) + FracLen(s) = 0
    THEN NaN
    ELSE Num(RMul(Rat(SignOf(s), 1),
                  RMul(Mantissa(s), Scale10(ExponentAt(s, MantissaEnd(s) + 1)))))

parseFloat(str) == ParseTrimmed(TrimStart(str))

\* a clamp without the upper limit
Clamp01_NoUpper(x) == RMax(Zero, x)

\* Math.max(0.0, Math.min(1.0, score))
Clamp01(x) == RMax(Zero, RMin(One, x))

\* What the similarity service does with one call.
\*   transport : fetch rejects
\*   notok     : a response with response.ok false
\*   badjson   : response.json() rejects
\*   nocontent : data.choices?.[0]?.message?.content is undefined or null
\*   nonstring : the content is a truthy value that is no string
\*   content   : the content is the string s
OracleOutcome(kind, s) == [kind |-> kind, s |-> s]

\* a similarity client whose non-success branch returns 0 instead of the fallback
computeSemanticSimilarity_NotOkZero(outcome) ==
    IF outcome.kind = "notok"
    THEN Zero
    ELSE IF outcome.kind \in {"transport", "badjson", "nonstring"}
    THEN Half
    ELSE LET content == IF outcome.kind = "nocontent" \/ outcome.s = <<>>
                        THEN <<"0", ".", "5">>
                        ELSE outcome.s
             score == parseFloat(Trim(content))
         IN  IF score.nan
             THEN Half
             ELSE IF score.inf # 0
             THEN (IF score.inf > 0 THEN One ELSE Zero)
             ELSE Clamp01(score.v)

\* the value computeSemanticSimilarity resolves to, given what the service did
computeSemanticSimilarity(outcome) ==
    IF outcome.kind \in {"transport", "notok", "badjson", "nonstring"}
    THEN Half
    ELSE LET content == IF outcome.kind = "nocontent" \/ outcome.s = <<>>
                        THEN <<"0", ".", "5">>
                        ELSE outcome.s
             score == parseFloat(Trim(content))
         IN  IF score.nan
             THEN Half
             ELSE IF score.inf # 0
             THEN (IF score.inf > 0 THEN One ELSE Zero)
             ELSE Clamp01(score.v)

(***************************************************************************)
(* Weight normalisation (the handler's "Normalize weights" step)           *)
(***************************************************************************)
\* rubrics.reduce((sum, r) => sum + Number(r.weight), 0)
RECURSIVE SumWeights(_)
SumWeights(ws) == IF ws = <<>> THEN 0 ELSE Head(ws) + SumWeights(Tail(ws))

\* a normalisation that leaves positive weights as they are
NormalizeWeights_Unnormalized(ws) ==
    LET totalWeight == SumWeights(ws)
    IN  [i \in 1..Len(ws) |->
            IF totalWeight > 0 THEN Rat(ws[i], 1) ELSE Rat(1, Len(ws))]

\* totalWeight > 0 ? Number(r.weight) / totalWeight : 1.0 / rubrics.length
NormalizeWeights(ws) ==
    LET totalWeight == SumWeights(ws)
    IN  [i \in 1..Len(ws) |->
            IF totalWeight > 0 THEN Rat(ws[i], totalWeight) ELSE Rat(1, Len(ws))]

(***************************************************************************)
(* The same division in IEEE-754 binary64, as the JavaScript engine        *)
(* computes it.  A positive number is a 53-bit significand (most           *)
(* significant bit first, the first bit 1) and an exponent:                *)
(* value = significand * 2^exp.  Results are rounded to nearest, ties to   *)
(* even.                                                                   *)
(***************************************************************************)
\* the bits of a binary64 significand
Precision == 53

Zeros(n) == [i \in 1..n |-> 0]
F64(bits, exp) == [zero |-> FALSE, bits |-> bits, exp |-> exp]
F64Zero == [zero |-> TRUE, bits |-> Zeros(Precision), exp |-> 0]
F64One == F64(<<1>> \o Zeros(Precision - 1), 1 - Precision)

\* a / b as (num / den) * 2^e with den <= num < 2 * den, for a, b > 0
RECURSIVE NormalizeQuotient(_, _, _)
NormalizeQuotient(a, b, e) ==
    IF a < b THEN NormalizeQuotient(2 * a, b, e - 1)
    ELSE IF a >= 2 * b THEN NormalizeQuotient(a, 2 * b, e + 1)
    ELSE [num |-> a, den |-> b, e |-> e]

\* 2^k mod d, by squaring
RECURSIVE PowMod(_, _)
PowMod(k, d) ==
    IF k = 0
    THEN 1 % d
    ELSE LET h == PowMod(k \div 2, d)
         IN  (h * h * (IF k % 2 = 1 THEN 2 ELSE 1)) % d

\* long division of r by d (r < d): the remainder left after k bits
RemAfter(r, d, k) == (r * PowMod(k, d)) % d

\* the next n bits of r / d (r < d) and the remainder left after them
DivBits(r, d, n) ==
    [bits |-> [k \in 1..n |-> IF 2 * RemAfter(r, d, k - 1) >= d THEN 1 ELSE 0],
     rem |-> RemAfter(r, d, n)]

\* bits + 1, and the carry out of the first bit
BitsInc(bits) ==
    LET zerosAt == {i \in DOMAIN bits : bits[i] = 0}
    IN  IF zerosAt = {}
        THEN [carry |-> 1, bits |-> Zeros(Len(bits))]
        ELSE [carry |-> 0,
              bits |-> [i \in DOMAIN bits |->
                          IF i < SetMax(zerosAt) THEN bits[i]
                          ELSE IF i = SetMax(zerosAt) THEN 1 ELSE 0]]

\* the significand kept, rounded up or not
F64Round(bits, exp, up) ==
    IF ~up
    THEN F64(bits, exp)
    ELSE IF BitsInc(bits).carry = 1
    THEN F64(<<1>> \o Zeros(Precision - 1), exp + 1)
    ELSE F64(BitsInc(bits).bits, exp)

\* a / b for natural numbers a and b > 0 that binary64 holds exactly
F64Div(a, b) ==
    IF a = 0
    THEN F64Zero
    ELSE LET q == NormalizeQuotient(a, b, 0)
             d == DivBits(q.num - q.den, q.den, Precision - 1)
             up == \/ 2 * d.rem > q.den
                   \/ 2 * d.rem = q.den /\ d.bits[Precision - 1] = 1
         IN  F64Round(<<1>> \o d.bits, q.e - (Precision - 1), up)

\* the carry into bit i of X + Y: some lower bit generates a carry and every bit
\* between passes it on
CarryInto(X, Y, i) ==
    \E j \in (i + 1)..Len(X) :
        /\ X[j] = 1 /\ Y[j] = 1
        /\ \A k \in (i + 1)..(j - 1) : X[k] + Y[k] = 1

\* X + Y for significands of the same length, the carry out as a leading bit
AddBits(X, Y) ==
    LET sum == [i \in 1..Len(X) |->
                   (X[i] + Y[i] + (IF CarryInto(X, Y, i) THEN 1 ELSE 0)) % 2]
    IN  IF CarryInto(X, Y, 0) THEN <<1>> \o sum ELSE sum

\* the exact sum S of two aligned significands at exponent exp, rounded
RoundSum(S, exp) ==
    LET keep == SubSeq(S, 1, Precision)
        rest == SubSeq(S, Precision + 1, Len(S))
        up == /\ rest # <<>>
              /\ rest[1] = 1
              /\ ((\E i \in 2..Len(rest) : rest[i] = 1) \/ keep[Precision] = 1)
    IN  F64Round(keep, exp + Len(rest), up)

\* hi + lo for hi.exp >= lo.exp
AddAligned(hi, lo) ==
    LET d == hi.exp - lo.exp
    IN  RoundSum(AddBits(hi.bits \o Zeros(d), Zeros(d) \o lo.bits), lo.exp)

\* x + y
F64Add(x, y) ==
    IF x.zero THEN y
    ELSE IF y.zero THEN x
    ELSE IF x.exp >= y.exp THEN AddAligned(x, y)
    ELSE AddAligned(y, x)

\* x < y
F64Lt(x, y) ==
    IF y.zero THEN FALSE
    ELSE IF x.zero THEN TRUE
    ELSE IF x.exp # y.exp THEN x.exp < y.exp
    ELSE \E i \in 1..Precision :
            /\ x.bits[i] < y.bits[i]
            /\ \A j \in 1..(i - 1) : x.bits[j] = y.bits[j]

\* the normalised weights as binary64 numbers
NormalizeWeightsF64(ws) ==
    LET totalWeight == SumWeights(ws)
    IN  [i \in 1..Len(ws) |->
            IF totalWeight > 0 THEN F64Div(ws[i], totalWeight) ELSE F64Div(1, Len(ws))]

\* xs[1] + ... + xs[n], added from the left
RECURSIVE F64Sum(_, _)
F64Sum(xs, n) == IF n = 0 THEN F64Zero ELSE F64Add(F64Sum(xs, n - 1), xs[n])

(***************************************************************************)
(* The inputs the model draws from.                                        *)
(***************************************************************************)
\* the transcript field of the request body
Undefined == [kind |-> "undefined", s |-> <<>>]
NonString == [kind |-> "number", s |-> <<>>]
Str(s) == [kind |-> "string", s |-> s]

TranscriptHello == <<"H", "e", "l", "l", "o", ",", " ", "m", "y", " ", "n", "a", "m", "e">>
TranscriptMorning == <<"g", "o", "o", "d", " ", "m", "o", "r", "n", "i", "n", "g", "s", "!">>
TranscriptNoWords == <<"?", " ", "!">>

\* "Hello, my name is X. I studied computer science."
TranscriptIntroduction ==
    <<"H", "e", "l", "l", "o", ",", " ", "m", "y", " ", "n", "a", "m", "e", " ",
      "i", "s", " ", "X", ".", " ", "I", " ", "s", "t", "u", "d", "i", "e", "d", " ",
      "c", "o", "m", "p", "u", "t", "e", "r", " ",
      "s", "c", "i", "e", "n", "c", "e", ".">>

Transcripts ==
    {Undefined, NonString, Str(<<>>),
     Str(TranscriptHello), Str(TranscriptMorning), Str(TranscriptNoWords),
     Str(TranscriptIntroduction)}

\* rows of the rubrics table, in criterion_name order
RubricPool ==
    << [criterion_name |-> "a-greeting", criterion_description |-> "greets",
        keywords |-> Text(<<"h", "e", "l", "l", "o", ",", "h", "i">>),
        weight |-> 1, min_words |-> 1, max_words |-> 3],
       [criterion_name |-> "b-phrase", criterion_description |-> "phrase",
        keywords |-> Text(<<"G", "o", "o", "d", " ", "m", "o", "r", "n", "i", "n", "g", ";",
                            " ", "m", "o", "r", "n", "i", "n", "g", ";", "b", "y", "e">>),
        weight |-> 3, min_words |-> 4, max_words |-> 9999],
       [criterion_name |-> "c-free", criterion_description |-> "greets",
        keywords |-> NullText,
        weight |-> 0, min_words |-> 0, max_words |-> 0],
       [criterion_name |-> "d-short", criterion_description |-> "short",
        keywords |-> Text(<<",", " ", ";">>),
        weight |-> 0, min_words |-> 0, max_words |-> 1] >>

\* the only row of a rubrics table that holds a single criterion
IntroductionRubric ==
    [criterion_name |-> "introduction", criterion_description |-> "introduces",
     keywords |-> Text(<<"h", "e", "l", "l", "o", ",", "n", "a", "m", "e">>),
     weight |-> 1, min_words |-> 5, max_words |-> 50]

\* the rubric collections the query can return: ordered by criterion_name
RubricLists ==
    UNION {{[i \in 1..n |-> RubricPool[f[i]]] :
               f \in {g \in [1..n -> DOMAIN RubricPool] :
                         \A i \in 1..n, j \in 1..n : i < j => g[i] <= g[j]}} :
           n \in 0..MaxRubrics}
        \cup {<<IntroductionRubric>>}

\* what the similarity service can do with one call
OracleContents ==
    {<<"0", ".", "8">>, <<"1", ".", "5">>, <<"-", "0", ".", "2">>,
     <<"a", "b", "c">>, <<>>}

OracleOutcomes ==
    {OracleOutcome(k, <<>>) : k \in {"transport", "notok", "badjson", "nocontent", "nonstring"}}
        \cup {OracleOutcome("content", c) : c \in OracleContents}

(***************************************************************************)
(* The request handler (Deno.serve).                                       *)
(***************************************************************************)
NoResponse == [status |-> 0, kind |-> "none", error |-> "", result |-> <<>>]
ErrorResponse(status, msg) ==
    [status |-> status, kind |-> "error", error |-> msg, result |-> <<>>]
ResultResponse(res) ==
    [status |-> 200, kind |-> "result", error |-> "", result |-> <<res>>]
PreflightResponse == [status |-> 200, kind |-> "preflight", error |-> "", result |-> <<>>]

NoResult == <<>>

Requests ==
    [method : {"OPTIONS", "POST"}, json : {"ok", "invalid"}, transcript : Transcripts]

\* the handler's locals before it has run
Fresh ==
    /\ rubrics = <<>>
    /\ rubricQueries = 0
    /\ rubricReply = "none"
    /\ insertReply = "none"
    /\ normalizedRubrics = <<>>
    /\ tokens = <<>>
    /\ idx = 0
    /\ criteriaScores = <<>>
    /\ internals = <<>>
    /\ totalWeightedScore = Zero
    /\ oracleLog = <<>>
    /\ result = NoResult
    /\ dbRows = <<>>
    /\ insertAttempts = 0
    /\ response = NoResponse

InitHandler ==
    /\ pc = "start"
    /\ body \in Requests
    /\ Fresh

NoCall == [fn |-> "none", args |-> <<>>, out |-> <<>>, done |-> FALSE]

Init == InitHandler /\ call = NoCall

\* if (req.method === 'OPTIONS') return new Response(null, ...)
Preflight ==
    /\ pc = "start"
    /\ body.method = "OPTIONS"
    /\ response' = PreflightResponse
    /\ pc' = "done"
    /\ UNCHANGED <<body, rubrics, normalizedRubrics, tokens, idx, criteriaScores,
                   internals, totalWeightedScore, oracleLog, result, dbRows,
                   insertAttempts, rubricQueries, rubricReply, insertReply, call>>

\* a validation that tests the type only and lets the empty string through
InvalidTranscript_TypeOnly(t) == t.kind # "string"

\* !transcript || typeof transcript !== 'string'
InvalidTranscript(t) == t.kind # "string" \/ t.s = <<>>

\* await req.json(), the validation of the transcript, and the rubric query issued
ParseAndValidate ==
    /\ pc = "start"
    /\ body.method # "OPTIONS"
    /\ IF body.json = "invalid"
       THEN /\ response' = ErrorResponse(500, "unexpected")
            /\ pc' = "done"
       ELSE IF InvalidTranscript(body.transcript)
       THEN /\ response' = ErrorResponse(400, "Invalid transcript provided")
            /\ pc' = "done"
       ELSE /\ response' = response
            /\ pc' = "awaitRubrics"
    /\ rubricQueries' = IF pc' = "awaitRubrics" THEN rubricQueries + 1 ELSE rubricQueries
    /\ UNCHANGED <<body, rubrics, normalizedRubrics, tokens, idx, criteriaScores,
                   internals, totalWeightedScore, oracleLog, result, dbRows,
                   insertAttempts, rubricReply, insertReply, call>>

\* the rows with their weight replaced by the normalised weight
WithNormalizedWeights(rows) ==
    LET nw == NormalizeWeights([i \in 1..Len(rows) |-> rows[i].weight])
    IN  [i \in 1..Len(rows) |-> [rows[i] EXCEPT !.weight = nw[i]]]

\* the call computeSemanticSimilarity issues for rubric i: pending until it settles
PendingCall(i, rubric) ==
    [rubric |-> i, description |-> rubric.criterion_description,
     settled |-> FALSE, outcome |-> OracleOutcome("pending", <<>>)]

\* the rubric query settles: error, no data, no rows, or the active rows; with
\* rows the weights are normalised, the transcript tokenized and the loop entered,
\* up to the first oracle call
RubricsReturn ==
    /\ pc = "awaitRubrics"
    /\ \E outcome \in {"error", "null", "throws", "rows"} :
       \E rows \in RubricLists :
          /\ outcome # "rows" => rows = <<>>
          /\ rubricReply' = outcome
          /\ IF outcome = "throws"
             THEN /\ response' = ErrorResponse(500, "unexpected")
                  /\ pc' = "done"
                  /\ UNCHANGED <<rubrics, normalizedRubrics, tokens, idx, oracleLog>>
             ELSE IF outcome = "error"
             THEN /\ response' = ErrorResponse(500, "Failed to fetch rubrics")
                  /\ pc' = "done"
                  /\ UNCHANGED <<rubrics, normalizedRubrics, tokens, idx, oracleLog>>
             ELSE IF outcome = "null" \/ Len(rows) = 0
             THEN /\ response' = ErrorResponse(404, "No active rubrics found")
                  /\ pc' = "done"
                  /\ UNCHANGED <<rubrics, normalizedRubrics, tokens, idx, oracleLog>>
             ELSE /\ rubrics' = rows
                  /\ normalizedRubrics' = WithNormalizedWeights(rows)
                  /\ tokens' = tokenize(body.transcript.s)
                  /\ idx' = 1
                  /\ oracleLog' = <<PendingCall(1, rows[1])>>
                  /\ pc' = "awaitOracle"
                  /\ response' = response
    /\ UNCHANGED <<body, criteriaScores, internals, totalWeightedScore, result,
                   dbRows, insertAttempts, rubricQueries, insertReply, call>>

\* a blend with the similarity and length weights exchanged
Combine_Swapped(k, sim, len) ==
    RAdd(RAdd(RMul(Rat(2, 5), k), RMul(Rat(1, 5), sim)), RMul(Rat(2, 5), len))

\* 0.4 * kwResult.score + 0.4 * simScore + 0.2 * lenScore
Combine(k, sim, len) ==
    RAdd(RAdd(RMul(Rat(2, 5), k), RMul(Rat(2, 5), sim)), RMul(Rat(1, 5), len))

\* the locals of one loop iteration
Iteration(rubric, toks, sim) ==
    LET kwResult == computeKeywordScore(rubric.keywords, toks)
        lenScore == computeLengthScore(rubric.min_words, rubric.max_words, Len(toks))
        combined == Combine(kwResult.score, sim, lenScore)
        clampedCombined == Clamp01(combined)
    IN  [kwResult |-> kwResult, simScore |-> sim, lenScore |-> lenScore,
         combined |-> combined, clampedCombined |-> clampedCombined,
         weight |-> rubric.weight,
         weighted |-> RMul(clampedCombined, rubric.weight)]

\* the feedback marker of the keyword part
KeywordFeedback(kwResult) ==
    IF kwResult.expected = 0 THEN "none"
    ELSE IF Len(kwResult.found) = kwResult.expected THEN "all"
    ELSE IF Len(kwResult.found) = 0 THEN "nokeywords"
    ELSE "partial"

\* criteriaScores.push({...})
CriterionScore(rubric, it) ==
    [name |-> rubric.criterion_name,
     description |-> rubric.criterion_description,
     weight |-> rubric.weight,
     keyword_score |-> RoundTo(it.kwResult.score, 1000),
     keywords_found |-> it.kwResult.found,
     similarity_score |-> RoundTo(it.simScore, 1000),
     length_score |-> RoundTo(it.lenScore, 1000),
     combined_score |-> RoundTo(it.clampedCombined, 1000),
     weighted_score |-> RoundTo(it.weighted, 10000),
     feedback |-> KeywordFeedback(it.kwResult)]

\* an overall score that is clamped but not scaled to 0..100
OverallScore_NoScale(total) == RMax(Zero, RMin(Hundred, total))

\* Math.max(0, Math.min(100, totalWeightedScore * 100))
OverallScore(total) == RMax(Zero, RMin(Hundred, RMul(total, Hundred)))

\* the result object
ScoreResult(total, toks, criteria) ==
    [overall_score |-> RoundTo(OverallScore(total), 100),
     word_count |-> Len(toks),
     criteria |-> criteria]

\* a loop that stops one rubric early
LoopContinues_SkipLast(i, n) == i + 1 < n

\* for (const rubric of normalizedRubrics): whether a rubric follows rubric i of n
LoopContinues(i, n) == i < n

\* an oracle call settles: the rest of the iteration, then either the next
\* iteration up to its oracle call, or the result and the insert issued
OracleReturn ==
    /\ pc = "awaitOracle"
    /\ \E outcome \in OracleOutcomes :
          LET rubric == normalizedRubrics[idx]
              it == Iteration(rubric, tokens, computeSemanticSimilarity(outcome))
              total == RAdd(totalWeightedScore, it.weighted)
              criteria == Append(criteriaScores, CriterionScore(rubric, it))
              log == [oracleLog EXCEPT ![Len(oracleLog)] =
                         [@ EXCEPT !.settled = TRUE, !.outcome = outcome]]
          IN  /\ internals' = Append(internals, it)
              /\ totalWeightedScore' = total
              /\ criteriaScores' = criteria
              /\ IF LoopContinues(idx, Len(normalizedRubrics))
                 THEN /\ idx' = idx + 1
                      /\ oracleLog' = Append(log, PendingCall(idx + 1, normalizedRubrics[idx + 1]))
                      /\ pc' = "awaitOracle"
                      /\ UNCHANGED <<result, insertAttempts>>
                 ELSE /\ idx' = idx + 1
                      /\ oracleLog' = log
                      /\ result' = <<ScoreResult(total, tokens, criteria)>>
                      /\ insertAttempts' = insertAttempts + 1
                      /\ pc' = "awaitInsert"
    /\ UNCHANGED <<body, rubrics, normalizedRubrics, tokens, dbRows, response,
                   rubricQueries, rubricReply, insertReply, call>>

\* the row handed to insert
TranscriptRow(text, res) ==
    [transcript_text |-> text, overall_score |-> res.overall_score,
     word_count |-> res.word_count, scoring_data |-> res.criteria]

\* a handler that looks at the result of the insert and answers 500 on an error
InsertReturn_ErrorFails ==
    /\ pc = "awaitInsert"
    /\ \E outcome \in {"stored", "error", "throws"} :
          /\ insertReply' = outcome
          /\ dbRows' = IF outcome = "stored"
                       THEN Append(dbRows, TranscriptRow(body.transcript.s, result[1]))
                       ELSE dbRows
          /\ response' = IF outcome = "stored"
                         THEN ResultResponse(result[1])
                         ELSE ErrorResponse(500, "unexpected")
    /\ pc' = "done"
    /\ UNCHANGED <<body, rubrics, normalizedRubrics, tokens, idx, criteriaScores,
                   internals, totalWeightedScore, oracleLog, result,
                   insertAttempts, rubricQueries, rubricReply, call>>

\* the insert settles: the row is stored, or an error comes back as a result
\* (not looked at), or the call rejects and the catch block answers
InsertReturn ==
    /\ pc = "awaitInsert"
    /\ \E outcome \in {"stored", "error", "throws"} :
          /\ insertReply' = outcome
          /\ dbRows' = IF outcome = "stored"
                       THEN Append(dbRows, TranscriptRow(body.transcript.s, result[1]))
                       ELSE dbRows
          /\ response' = IF outcome = "throws"
                         THEN ErrorResponse(500, "unexpected")
                         ELSE ResultResponse(result[1])
    /\ pc' = "done"
    /\ UNCHANGED <<body, rubrics, normalizedRubrics, tokens, idx, criteriaScores,
                   internals, totalWeightedScore, oracleLog, result,
                   insertAttempts, rubricQueries, rubricReply, call>>

Next ==
    \/ Preflight
    \/ ParseAndValidate
    \/ RubricsReturn
    \/ OracleReturn
    \/ InsertReturn

Spec == Init /\ [][Next]_vars

(***************************************************************************)
(* Properties of the request handler, checked under Spec.                  *)
(***************************************************************************)
NothingComputed ==
    /\ oracleLog = <<>>
    /\ criteriaScores = <<>>
    /\ internals = <<>>
    /\ totalWeightedScore = Zero
    /\ result = NoResult
    /\ insertAttempts = 0
    /\ dbRows = <<>>

FailedOutcome(o) ==
    \/ o.kind \in {"transport", "notok", "badjson"}
    \/ o.kind = "content" /\ o.s = <<"a", "b", "c">>

\* the scoring has run to its end: the result object exists
Scored == pc \in {"awaitInsert", "done"} /\ result # NoResult

RawWeights == [i \in 1..Len(rubrics) |-> rubrics[i].weight]

\* the normalised weight of rubric i, from the raw weights of the rows
ExpectedWeight(i) ==
    IF SumWeights(RawWeights) > 0
    THEN Rat(rubrics[i].weight, SumWeights(RawWeights))
    ELSE Rat(1, Len(rubrics))

\* C1: a request whose transcript is missing, empty or no string is answered
\* 400 without the rubric source being queried; a failed rubric query is
\* answered 500 and an empty or absent rubric set 404; in all of these runs no
\* oracle call is issued, nothing is scored and no row is inserted.
C1_RejectedBeforeScoring ==
    /\ (/\ body.method = "POST"
        /\ body.json = "ok"
        /\ (body.transcript.kind # "string" \/ body.transcript.s = <<>>))
       => /\ rubricQueries = 0
          /\ NothingComputed
          /\ pc = "done" => response = ErrorResponse(400, "Invalid transcript provided")
    /\ rubricReply = "error"
       => /\ NothingComputed
          /\ pc = "done"
          /\ response = ErrorResponse(500, "Failed to fetch rubrics")
    /\ (rubricReply = "null" \/ (rubricReply = "rows" /\ rubrics = <<>>))
       => /\ NothingComputed
          /\ pc = "done"
          /\ response = ErrorResponse(404, "No active rubrics found")

C1_Witness ==
    /\ pc = "done"
    /\ body.transcript = Str(<<>>)
    /\ body.json = "ok"
    /\ response.status = 400
    /\ rubricQueries = 0

\* C2: whatever the oracle calls do, a failed call (transport failure,
\* non-success response, unparsable body, non-numeric content) gives its own
\* rubric the similarity 0.5 and leaves the other rubrics' similarities alone,
\* no error response comes of it, and the run ends with a ScoreResult that
\* holds one CriterionResult per rubric.
C2_OracleFailureIsNeutral ==
    /\ \A i \in 1..Len(internals) :
          LET o == oracleLog[i].outcome
          IN  /\ FailedOutcome(o)
                 => /\ internals[i].simScore = Half
                    /\ criteriaScores[i].similarity_score = Half
              /\ (o.kind = "content" /\ o.s = <<"0", ".", "8">>)
                 => criteriaScores[i].similarity_score = Rat(4, 5)
              /\ (o.kind = "content" /\ o.s = <<"1", ".", "5">>)
                 => criteriaScores[i].similarity_score = One
    /\ pc \in {"awaitOracle", "awaitInsert"} => response = NoResponse
    /\ (pc = "done" /\ oracleLog # <<>> /\ insertReply # "throws")
       => response.kind = "result"
    /\ (oracleLog # <<>> /\ \A i \in 1..Len(oracleLog) : oracleLog[i].settled)
       => /\ Scored
          /\ Len(oracleLog) = Len(rubrics)
          /\ Len(result[1].criteria) = Len(rubrics)
          /\ \A i \in 1..Len(rubrics) :
                result[1].criteria[i].name = rubrics[i].criterion_name

C2_Witness ==
    /\ pc = "done"
    /\ response.kind = "result"
    /\ Len(oracleLog) = 2
    /\ oracleLog[1].outcome.kind = "notok"
    /\ oracleLog[2].outcome = OracleOutcome("content", <<"0", ".", "8">>)
    /\ response.result[1].criteria[1].similarity_score = Half
    /\ response.result[1].criteria[2].similarity_score = Rat(4, 5)

\* the sum over the rubrics 1..n of combined_i * normalizedWeight_i
RECURSIVE WeightedSum(_)
WeightedSum(n) ==
    IF n = 0
    THEN Zero
    ELSE RAdd(WeightedSum(n - 1), RMul(internals[n].clampedCombined, ExpectedWeight(n)))

\* C3: the overall score is 100 times the sum of combined_i * normalizedWeight_i,
\* clamped to [0,100] and rounded to two decimals, so it lies in [0,100]; with raw
\* weights 1 and 3 the two rubrics count 0.25 and 0.75.
C3_OverallScore ==
    Scored =>
       LET overall == result[1].overall_score
           scaled == RMul(Hundred, WeightedSum(Len(rubrics)))
       IN  /\ Len(internals) = Len(rubrics)
           /\ overall = RoundTo(RMax(Zero, RMin(Hundred, scaled)), 100)
           /\ RLe(Zero, overall) /\ RLe(overall, Hundred)
           /\ RawWeights = <<1, 3>>
              => overall = RoundTo(RMul(Hundred,
                               RAdd(RMul(Rat(1, 4), internals[1].clampedCombined),
                                    RMul(Rat(3, 4), internals[2].clampedCombined))), 100)

C3_Witness ==
    /\ pc = "done"
    /\ response.kind = "result"
    /\ RawWeights = <<1, 3>>
    /\ internals[1].clampedCombined # internals[2].clampedCombined
    /\ RLt(Zero, response.result[1].overall_score)
    /\ RLt(response.result[1].overall_score, Hundred)

\* C5: the oracle is called once per rubric, in the order of the rubrics, a call
\* being issued only when every earlier call has settled and never twice for a
\* rubric; a scored run has issued exactly N calls and lists its CriterionResults
\* in the same order.
C5_SequentialOracleCalls ==
    /\ Len(oracleLog) <= Len(rubrics)
    /\ \A i \in 1..Len(oracleLog) :
          /\ oracleLog[i].rubric = i
          /\ oracleLog[i].description = rubrics[i].criterion_description
          /\ i < Len(oracleLog) => oracleLog[i].settled
    /\ pc = "awaitOracle"
       => /\ oracleLog # <<>>
          /\ ~oracleLog[Len(oracleLog)].settled
          /\ Len(criteriaScores) = Len(oracleLog) - 1
    /\ Scored
       => /\ Len(oracleLog) = Len(rubrics)
          /\ \A i \in 1..Len(oracleLog) : oracleLog[i].settled
          /\ Len(result[1].criteria) = Len(rubrics)
          /\ \A i \in 1..Len(rubrics) :
                /\ result[1].criteria[i].name = rubrics[i].criterion_name
                /\ result[1].criteria[i].description = oracleLog[i].description

C5_Witness ==
    /\ pc = "done"
    /\ response.kind = "result"
    /\ Len(oracleLog) = 2
    /\ rubrics[1].criterion_name # rubrics[2].criterion_name
    /\ oracleLog[1].description = oracleLog[2].description
    /\ oracleLog[1].outcome.kind = "transport"

\* (2K + 2S + L) / 5, clamped to [0,1]
Blend(k, sim, len) ==
    LET x == Rat(2 * k.n * sim.d * len.d + 2 * sim.n * k.d * len.d + len.n * k.d * sim.d,
                 5 * k.d * sim.d * len.d)
    IN  IF RLt(x, Zero) THEN Zero ELSE IF RLt(One, x) THEN One ELSE x

\* C6 as stated: the scores a CriterionResult carries satisfy
\* combined = clamp(0.4*K + 0.4*S + 0.2*L, 0, 1) and weighted = combined * weight.
C6_AsStated ==
    \A i \in 1..Len(criteriaScores) :
       LET c == criteriaScores[i]
       IN  /\ InUnit(c.keyword_score) /\ InUnit(c.similarity_score) /\ InUnit(c.length_score)
           /\ c.combined_score = Blend(c.keyword_score, c.similarity_score, c.length_score)
           /\ c.weighted_score = RMul(c.combined_score, c.weight)

\* C6, amended: for every rubric the keyword, similarity and length scores lie in
\* [0,1], the combined score is clamp(0.4*K + 0.4*S + 0.2*L, 0, 1) of the unrounded
\* scores and the weighted contribution is combined * normalizedWeight; the
\* CriterionResult carries these values rounded, the scores to 3 decimals and the
\* weighted contribution to 4.
C6_CombinedScore ==
    /\ Len(criteriaScores) = Len(internals)
    /\ \A i \in 1..Len(internals) :
          LET it == internals[i]
              c == criteriaScores[i]
              k == it.kwResult.score
          IN  /\ InUnit(k) /\ InUnit(it.simScore) /\ InUnit(it.lenScore)
              /\ it.clampedCombined = Blend(k, it.simScore, it.lenScore)
              /\ InUnit(it.clampedCombined)
              /\ it.weight = ExpectedWeight(i)
              /\ it.weighted = RMul(it.clampedCombined, ExpectedWeight(i))
              /\ c.weight = ExpectedWeight(i)
              /\ c.keyword_score = RoundTo(k, 1000)
              /\ c.similarity_score = RoundTo(it.simScore, 1000)
              /\ c.length_score = RoundTo(it.lenScore, 1000)
              /\ c.combined_score = RoundTo(it.clampedCombined, 1000)
              /\ c.weighted_score = RoundTo(it.weighted, 10000)
              /\ InUnit(c.keyword_score) /\ InUnit(c.similarity_score)
              /\ InUnit(c.length_score) /\ InUnit(c.combined_score)

C6_Witness ==
    /\ pc = "done"
    /\ response.kind = "result"
    /\ \E i \in 1..Len(internals) :
          /\ internals[i].kwResult.score = Rat(1, 3)
          /\ criteriaScores[i].keyword_score = Rat(333, 1000)
          /\ internals[i].simScore = Rat(4, 5)
          /\ criteriaScores[i].combined_score # internals[i].clampedCombined

\* the run of the end-to-end scenario: the introduction transcript, the single
\* introduction rubric, the similarity service answering 0.8
IntroductionScored ==
    /\ Scored
    /\ body.transcript = Str(TranscriptIntroduction)
    /\ rubrics = <<IntroductionRubric>>
    /\ oracleLog[1].outcome = OracleOutcome("content", <<"0", ".", "8">>)

\* what the scenario yields, the word count aside
IntroductionScores ==
    /\ tokens = << <<"h", "e", "l", "l", "o">>, <<"m", "y">>, <<"n", "a", "m", "e">>,
                   <<"i", "s">>, <<"x">>, <<"i">>,
                   <<"s", "t", "u", "d", "i", "e", "d">>,
                   <<"c", "o", "m", "p", "u", "t", "e", "r">>,
                   <<"s", "c", "i", "e", "n", "c", "e">> >>
    /\ Len(result[1].criteria) = 1
    /\ internals[1].kwResult.score = One
    /\ result[1].criteria[1].keyword_score = One
    /\ result[1].criteria[1].keywords_found =
          << <<"h", "e", "l", "l", "o">>, <<"n", "a", "m", "e">> >>
    /\ internals[1].simScore = Rat(4, 5)
    /\ internals[1].lenScore = One
    /\ result[1].criteria[1].length_score = One
    /\ internals[1].combined = Rat(92, 100)
    /\ result[1].criteria[1].combined_score = Rat(92, 100)
    /\ result[1].overall_score = Rat(92, 1)

\* C12 as stated: the scenario gives word count 10, keyword score 1.0 with both
\* keywords found, length score 1.0, combined score 0.92 and overall_score 92.0.
C12_AsStated ==
    IntroductionScored => IntroductionScores /\ result[1].word_count = 10

\* C12, amended: the scenario gives word count 9 (hello, my, name, is, x, i,
\* studied, computer, science), keyword score 1.0 with both keywords found,
\* length score 1.0, combined score 0.92 and overall_score 92.0.
C12_EndToEnd ==
    IntroductionScored => IntroductionScores /\ result[1].word_count = 9

C12_Witness ==
    /\ IntroductionScored
    /\ pc = "done"
    /\ response = ResultResponse(result[1])
    /\ result[1].word_count = 9
    /\ result[1].overall_score = Rat(92, 1)

\* the run was turned away: invalid transcript, failed rubric query, no rubrics
Rejected ==
    /\ response.kind = "error"
    /\ \/ response.status \in {400, 404}
       \/ response.error = "Failed to fetch rubrics"
       \/ rubricReply \in {"none", "error", "null", "throws"}
       \/ rubrics = <<>>

\* C13: the insert into transcripts is attempted at most once in a run, only
\* after every rubric has been scored and the overall score computed, and never
\* in a run that ends in a validation, upstream or no-rubrics rejection (or a
\* preflight); when the insert returns an error as a result instead of throwing,
\* the caller gets the same successful ScoreResult response as when it succeeds.
C13_InsertOnceAfterScoring ==
    /\ insertAttempts \in {0, 1}
    /\ Len(dbRows) <= insertAttempts
    /\ insertAttempts = 1
       => /\ pc \in {"awaitInsert", "done"}
          /\ rubricReply = "rows" /\ rubrics # <<>>
          /\ Len(criteriaScores) = Len(rubrics)
          /\ Len(oracleLog) = Len(rubrics)
          /\ \A i \in 1..Len(oracleLog) : oracleLog[i].settled
          /\ result = <<ScoreResult(totalWeightedScore, tokens, criteriaScores)>>
    /\ insertReply # "none" => insertAttempts = 1 /\ pc = "done"
    /\ (Rejected \/ response.kind = "preflight")
       => insertAttempts = 0 /\ insertReply = "none" /\ dbRows = <<>>
    /\ insertReply \in {"stored", "error"}
       => /\ response = ResultResponse(ScoreResult(totalWeightedScore, tokens, criteriaScores))
          /\ response.status = 200
    /\ insertReply = "stored"
       => dbRows = <<TranscriptRow(body.transcript.s, response.result[1])>>
    /\ insertReply \in {"error", "throws"} => dbRows = <<>>

C13_Witness ==
    /\ pc = "done"
    /\ insertReply = "error"
    /\ insertAttempts = 1
    /\ dbRows = <<>>
    /\ Len(rubrics) = 2
    /\ response.kind = "result"
    /\ response.result[1] = result[1]
    /\ Len(response.result[1].criteria) = 2

(***************************************************************************)
(* computeLengthScore on its own: every call with word counts up to        *)
(* MaxWords (and the default cap) is made once.                            *)
(***************************************************************************)
\* the handler is not running
Idle ==
    /\ pc = "idle"
    /\ body = [method |-> "POST", json |-> "ok", transcript |-> Undefined]
    /\ Fresh

Calling(fn, args) == [fn |-> fn, args |-> args, out |-> <<>>, done |-> FALSE]

LengthCalls ==
    {Calling("computeLengthScore", <<mn, mx, t>>) :
        mn \in 0..MaxWords, mx \in 0..MaxWords \cup {DefaultMaxWords}, t \in 0..MaxWords}

InitLength == Idle /\ call \in LengthCalls

CallLength ==
    /\ call.fn = "computeLengthScore"
    /\ ~call.done
    /\ call' = [call EXCEPT
                   !.out = <<computeLengthScore(call.args[1], call.args[2], call.args[3])>>,
                   !.done = TRUE]
    /\ UNCHANGED handlerVars

NextLength == CallLength

SpecLength == InitLength /\ [][NextLength]_vars

LengthDone == call.fn = "computeLengthScore" /\ call.done

\* C8 as stated: each of the four clauses, wherever its own condition holds.
C8_AsStated ==
    LengthDone =>
       LET mn == call.args[1]
           mx == call.args[2]
           t == call.args[3]
           r == call.out[1]
       IN  /\ (mn <= t /\ t <= mx) => r = One
           /\ t < mn => r = Rat(t, 2 * IntMax(1, mn))
           /\ (t > mx /\ mx > 0) => r = Rat(mx, 2 * t)
           /\ (~(mn <= t /\ t <= mx) /\ ~(t < mn) /\ ~(t > mx /\ mx > 0)) => r = Zero

\* C8, amended: computeLengthScore(minWords, maxWords, totalWords) is 1 when
\* minWords <= totalWords <= maxWords; else 0.5*totalWords/max(1,minWords) when
\* totalWords < minWords; else 0.5*maxWords/totalWords when totalWords > maxWords
\* and maxWords > 0; else 0, so 0 for (0, 0, 1).  The clauses apply in this order:
\* with minWords > maxWords a count between the two gets the below-minimum value.
\* The result lies in [0,1] and is at most 0.5 outside the range.
C8_LengthScore ==
    LengthDone =>
       LET mn == call.args[1]
           mx == call.args[2]
           t == call.args[3]
           r == call.out[1]
       IN  /\ (mn <= t /\ t <= mx) => r = One
           /\ t < mn => r = Rat(t, 2 * IntMax(1, mn))
           /\ (t >= mn /\ t > mx /\ mx > 0) => r = Rat(mx, 2 * t)
           /\ (t >= mn /\ t > mx /\ mx <= 0) => r = Zero
           /\ (mn = 0 /\ mx = 0 /\ t = 1) => r = Zero
           /\ RLe(Zero, r) /\ RLe(r, One)
           /\ ~(mn <= t /\ t <= mx) => RLe(r, Half)

C8_Witness ==
    /\ LengthDone
    /\ call.args = <<0, 0, 1>>
    /\ call.out = <<Zero>>

\* C9 as stated: at totalWords = minWords the below-minimum formula gives the
\* score returned, and at totalWords = maxWords the above-maximum formula does.
C9_AsStated ==
    (LengthDone /\ 0 < call.args[1] /\ call.args[1] <= call.args[2])
    => /\ call.args[3] = call.args[1]
          => call.out[1] = BelowMinFormula(call.args[1], call.args[3])
       /\ call.args[3] = call.args[2]
          => call.out[1] = AboveMaxFormula(call.args[2], call.args[3])

\* C9, amended: for 0 < minWords <= maxWords the below-minimum formula reaches
\* 0.5 at totalWords = minWords and the above-maximum formula reaches 0.5 at
\* totalWords = maxWords, while the score returned at both boundaries is 1.0: the
\* curve jumps by 0.5 at each boundary, and one word outside the range the score
\* is below 0.5.
C9_JumpAtBoundaries ==
    (LengthDone /\ 0 < call.args[1] /\ call.args[1] <= call.args[2])
    => LET mn == call.args[1]
           mx == call.args[2]
           t == call.args[3]
           r == call.out[1]
       IN  /\ BelowMinFormula(mn, mn) = Half
           /\ AboveMaxFormula(mx, mx) = Half
           /\ (t = mn \/ t = mx) => r = One
           /\ t = mn - 1 => r = Rat(mn - 1, 2 * mn) /\ RLt(r, Half)
           /\ t = mx + 1 => r = Rat(mx, 2 * (mx + 1)) /\ RLt(r, Half)

C9_Witness ==
    /\ LengthDone
    /\ call.args = <<3, 5, 3>>
    /\ call.out = <<One>>
    /\ BelowMinFormula(3, 3) = Half

\* C10 as stated: with max_words = 0 a transcript of at least min_words words
\* gets the in-range length score, as it does with max_words = 9999.
C10_ZeroMaxMeansNoCap ==
    (LengthDone /\ call.args[2] = 0 /\ call.args[3] >= call.args[1])
    => /\ call.out[1] = One
       /\ call.out[1] = computeLengthScore(call.args[1], DefaultMaxWords, call.args[3])

(***************************************************************************)
(* The weight normalisation on its own: every list of 1..MaxNormRubrics    *)
(* raw weights 0..MaxWeight is normalised once, exactly and in binary64.   *)
(***************************************************************************)
WeightLists == UNION {[1..n -> 0..MaxWeight] : n \in 1..MaxNormRubrics}

InitNormalize ==
    Idle /\ call \in {Calling("normalizeWeights", <<ws>>) : ws \in WeightLists}

CallNormalize ==
    /\ call.fn = "normalizeWeights"
    /\ ~call.done
    /\ call' = [call EXCEPT
                   !.out = <<NormalizeWeights(call.args[1]),
                             NormalizeWeightsF64(call.args[1])>>,
                   !.done = TRUE]
    /\ UNCHANGED handlerVars

NextNormalize == CallNormalize

SpecNormalize == InitNormalize /\ [][NextNormalize]_vars

NormalizeDone == call.fn = "normalizeWeights" /\ call.done

\* w[1] + ... + w[n]
RECURSIVE IntSum(_, _)
IntSum(w, n) == IF n = 0 THEN 0 ELSE IntSum(w, n - 1) + w[n]

\* x[1] + ... + x[n] for rationals
RECURSIVE RatSum(_, _)
RatSum(x, n) == IF n = 0 THEN Zero ELSE RAdd(RatSum(x, n - 1), x[n])

\* the bits i..j of a significand as a natural number
RECURSIVE BitsValue(_, _, _)
BitsValue(bits, i, j) ==
    IF j < i THEN 0 ELSE 2 * BitsValue(bits, i, j - 1) + bits[j]

\* |x - 1| in units of 2^-53, read off the low 8 bits of the significand;
\* 1000 when x is not within 2^-46 of 1
UlpsFromOne(x) ==
    LET top == Precision - 8
        low == BitsValue(x.bits, top + 1, Precision)
    IN  IF x.zero THEN 1000
        ELSE IF x.exp = 1 - Precision /\ \A i \in 2..top : x.bits[i] = 0
        THEN 2 * low
        ELSE IF x.exp = -Precision /\ \A i \in 1..top : x.bits[i] = 1
        THEN 256 - low
        ELSE 1000

\* the formulas of the normalisation and the order of the weights
C4_FormulaAndOrder ==
    LET ws == call.args[1]
        N == Len(ws)
        sum == IntSum(ws, N)
        nw == call.out[1]
        f == call.out[2]
    IN  /\ Len(nw) = N /\ Len(f) = N
        /\ sum > 0 => \A i \in 1..N : nw[i].n * sum = ws[i] * nw[i].d
        /\ sum = 0 => \A i \in 1..N : nw[i].n * N = nw[i].d
        /\ \A i \in 1..N : nw[i].d > 0 /\ nw[i].n >= 0
        /\ \A i, j \in 1..N :
              /\ ws[i] <= ws[j] => RLe(nw[i], nw[j]) /\ ~F64Lt(f[j], f[i])
              /\ (ws[i] < ws[j]) => RLt(nw[i], nw[j])

\* C4 as stated: the normalised weights the code computes sum to exactly 1.
C4_AsStated ==
    NormalizeDone
    => /\ C4_FormulaAndOrder
       /\ F64Sum(call.out[2], Len(call.out[2])) = F64One

\* C4, amended: with a positive sum each normalised weight is w_i / sum, otherwise
\* each is 1/N; the normalised weights keep the order of the raw weights and sum
\* to 1 in exact arithmetic; the binary64 numbers the code computes sum to 1 only
\* up to rounding, within 3N * 2^-53 of 1.
C4_NormalizedWeights ==
    NormalizeDone
    => /\ C4_FormulaAndOrder
       /\ RatSum(call.out[1], Len(call.out[1])) = One
       /\ UlpsFromOne(F64Sum(call.out[2], Len(call.out[2]))) <= 3 * Len(call.args[1])

C4_Witness ==
    /\ NormalizeDone
    /\ call.args[1] = <<2, 3, 1>>
    /\ call.out[1] = <<Rat(1, 3), Rat(1, 2), Rat(1, 6)>>
    /\ F64Sum(call.out[2], 3) # F64One
    /\ UlpsFromOne(F64Sum(call.out[2], 3)) = 1

(***************************************************************************)
(* computeKeywordScore on its own: every keyword text of up to MaxKwLen    *)
(* characters over a small alphabet (and null) against the tokens of a few *)
(* transcripts.                                                            *)
(***************************************************************************)
KeywordAlphabet == {"a", "B", " ", ",", ";"}

KeywordTexts ==
    {NullText} \cup
    {Text(s) : s \in UNION {[1..n -> KeywordAlphabet] : n \in 0..MaxKwLen}}

KeywordTranscripts ==
    {<<>>, <<"a">>, <<"A", "b">>, <<"a", " ", "b">>, <<"B", ",", " ", "a", "!">>,
     <<"b", "a", " ", "b">>}

TokenLists == {tokenize(t) : t \in KeywordTranscripts}

InitKeyword ==
    Idle /\ call \in {Calling("computeKeywordScore", <<k, toks>>) :
                         k \in KeywordTexts, toks \in TokenLists}

CallKeyword ==
    /\ call.fn = "computeKeywordScore"
    /\ ~call.done
    /\ call' = [call EXCEPT
                   !.out = <<computeKeywordScore(call.args[1], call.args[2])>>,
                   !.done = TRUE]
    /\ UNCHANGED handlerVars

NextKeyword == CallKeyword

SpecKeyword == InitKeyword /\ [][NextKeyword]_vars

KeywordDone == call.fn = "computeKeywordScore" /\ call.done

\* the k-th smallest element of a set of numbers
Nth(S, k) == CHOOSE p \in S : Cardinality({x \in S : x < p}) = k - 1

\* the positions of the separators of s, with both ends
SeparatorPositions(s) ==
    {0, Len(s) + 1} \cup {i \in 1..Len(s) : s[i] = "," \/ s[i] = ";"}

\* the k-th entry of s: what lies between two neighbouring separators, without
\* the white space around it, in lower case
EntryOf(s, k) ==
    LET from == Nth(SeparatorPositions(s), k) + 1
        to == Nth(SeparatorPositions(s), k + 1) - 1
        inked == {i \in from..to : s[i] \notin {" ", "\t", "\n"}}
    IN  IF inked = {}
        THEN <<>>
        ELSE toLowerCase(SubSeq(s, Nth(inked, 1), Nth(inked, Cardinality(inked))))

\* whether entry e counts as found in the tokens
EntryMatches(e, toks) ==
    IF \E i \in 1..Len(e) : e[i] = " "
    THEN \E i \in 0..(Len(Join(toks)) - Len(e)) :
            \A j \in 1..Len(e) : Join(toks)[i + j] = e[j]
    ELSE \E t \in 1..Len(toks) : toks[t] = e

\* C7: a null, empty or all-separator keyword text gives found = [], expected = 0,
\* score = 1; otherwise expected counts the non-empty trimmed lower-cased entries
\* (duplicates too), an entry with a space is found iff it is a substring of the
\* tokens joined by single spaces, an entry without one iff it equals a token,
\* found lists the matched entries in the order of the text, and
\* score = |found| / expected.
C7_KeywordScore ==
    KeywordDone =>
       LET s == call.args[1].s
           toks == call.args[2]
           r == call.out[1]
           pieces == 1..(Cardinality(SeparatorPositions(s)) - 1)
           kept == {k \in pieces : EntryOf(s, k) # <<>>}
           hits == {k \in kept : EntryMatches(EntryOf(s, k), toks)}
       IN  IF call.args[1].null \/ kept = {}
           THEN r = [found |-> <<>>, expected |-> 0, score |-> One]
           ELSE /\ r.expected = Cardinality(kept)
                /\ Len(r.found) = Cardinality(hits)
                /\ \A m \in 1..Len(r.found) : r.found[m] = EntryOf(s, Nth(hits, m))
                /\ r.score.n * r.expected = Len(r.found) * r.score.d
                /\ r.score.d > 0

C7_Witness ==
    /\ KeywordDone
    /\ call.args[1] = Text(<<"a", ";", "B">>)
    /\ call.args[2] = << <<"b", "a">>, <<"b">> >>
    /\ call.out[1] = [found |-> << <<"b">> >>, expected |-> 2, score |-> Rat(1, 2)]

(***************************************************************************)
(* computeSemanticSimilarity on its own: every outcome of the service      *)
(* call, the content being any string of up to MaxContentLen characters    *)
(* over a small alphabet or one of a few longer replies.                   *)
(***************************************************************************)
ContentAlphabet == {"0", "1", "5", ".", "-", " ", "x"}

LongContents ==
    {<<"I", "n", "f", "i", "n", "i", "t", "y">>,
     <<"-", "I", "n", "f", "i", "n", "i", "t", "y">>,
     <<"N", "a", "N">>,
     <<"+", "0", ".", "3">>,
     <<"1", "5", "e", "-", "1">>,
     <<"5", "e", "1">>,
     <<"\n", "0", ".", "8", "\n">>,
     <<"0", ".", "8", " ", "o", "k">>,
     <<"a", "b", "c">>}

SimilarityContents ==
    UNION {[1..n -> ContentAlphabet] : n \in 0..MaxContentLen} \cup LongContents

SimilarityOutcomes ==
    {OracleOutcome(k, <<>>) : k \in {"transport", "notok", "badjson", "nocontent", "nonstring"}}
        \cup {OracleOutcome("content", c) : c \in SimilarityContents}

InitSimilarity ==
    Idle /\ call \in {Calling("computeSemanticSimilarity", <<o>>) : o \in SimilarityOutcomes}

CallSimilarity ==
    /\ call.fn = "computeSemanticSimilarity"
    /\ ~call.done
    /\ call' = [call EXCEPT
                   !.out = <<computeSemanticSimilarity(call.args[1])>>,
                   !.done = TRUE]
    /\ UNCHANGED handlerVars

NextSimilarity == CallSimilarity

SpecSimilarity == InitSimilarity /\ [][NextSimilarity]_vars

SimilarityDone == call.fn = "computeSemanticSimilarity" /\ call.done

\* whether the text, white space aside, starts like a number: an optional sign,
\* then a digit, a point and a digit, or the word Infinity
LooksNumeric(s) ==
    \E i \in 1..Len(s) :
        /\ \A k \in 1..(i - 1) : s[k] \in {" ", "\t", "\n"}
        /\ \E j \in {i, i + 1} :
              /\ j <= Len(s)
              /\ j = i + 1 => s[i] \in {"+", "-"}
              /\ \/ s[j] \in {"0", "1", "2", "3", "4", "5", "6", "7", "8", "9"}
                 \/ /\ s[j] = "."
                    /\ j + 1 <= Len(s)
                    /\ s[j + 1] \in {"0", "1", "2", "3", "4", "5", "6", "7", "8", "9"}
                 \/ /\ j + 7 <= Len(s)
                    /\ SubSeq(s, j, j + 7) = <<"I", "n", "f", "i", "n", "i", "t", "y">>

\* the reply of a successful call of the service
ReplyIs(s) == SimilarityDone /\ call.args[1] = OracleOutcome("content", s)

\* C11: computeSemanticSimilarity always returns a value in [0,1]; a successful
\* response whose content parses to a number x returns min(1, max(0, x)), so
\* "1.5" gives 1.0 and "-0.2" gives 0.0; a successful response whose content is
\* missing, empty, malformed or non-numeric returns exactly 0.5.
C11_SimilarityInUnit ==
    SimilarityDone =>
       LET o == call.args[1]
           r == call.out[1]
           x == parseFloat(Trim(o.s))
       IN  /\ RLe(Zero, r) /\ RLe(r, One)
           /\ o.kind \in {"nocontent", "badjson", "nonstring"} => r = Half
           /\ o.kind = "content" /\ ~LooksNumeric(o.s) => x.nan /\ r = Half
           /\ o.kind = "content" /\ LooksNumeric(o.s) =>
                 /\ ~x.nan
                 /\ x.inf > 0 => r = One
                 /\ x.inf < 0 => r = Zero
                 /\ x.inf = 0 /\ RLt(x.v, Zero) => r = Zero
                 /\ x.inf = 0 /\ RLt(One, x.v) => r = One
                 /\ x.inf = 0 /\ RLe(Zero, x.v) /\ RLe(x.v, One) => r = x.v
           /\ ReplyIs(<<"1", ".", "5">>) => r = One
           /\ ReplyIs(<<"-", "0", ".", "5">>) => r = Zero
           /\ ReplyIs(<<".", "5", "x">>) => r = Rat(1, 2)
           /\ ReplyIs(<<"0", ".", "8", " ", "o", "k">>) => r = Rat(4, 5)
           /\ ReplyIs(<<"1", "5", "e", "-", "1">>) => r = One
           /\ ReplyIs(<<"a", "b", "c">>) => r = Half
           /\ ReplyIs(<<"x", "1">>) => r = Half
           /\ ReplyIs(<<>>) => r = Half

C11_Witness ==
    /\ ReplyIs(<<"1", ".", "5">>)
    /\ call.out[1] = One

====
